---- MODULE Spec2Model ----
(***************************************************************************)
(* Model of pyod/models/mad.py: the MAD (median absolute deviation)        *)
(* univariate outlier detector.                                            *)
(*                                                                         *)
(* Floating point values are modelled as records [k, n, d]:                *)
(*   k = "fin"  the exact rational n/d (d > 0, lowest terms)               *)
(*   k = "nan"  NaN             k = "inf"  +Infinity                       *)
(*   k = "big"  n/d times the largest finite double (nan_to_num of +inf)   *)
(*   k = "sqrt" the non-negative square root of the rational n/d           *)
(*   k = "none" Python's None   k = "absent" the attribute does not exist  *)
(* Rounding of finite arithmetic is not modelled.                          *)
(***************************************************************************)
EXTENDS Integers, Sequences, FiniteSets, TLC

\* ------------------------------------------------------------------ bounds
\* longest column passed to fit
MaxLen == 2
\* longest column passed to decision_function (besides the fitted column)
MaxScoreLen == 1
\* longest column used by the interleaved fit calls
MaxConcLen == 1

\* ------------------------------------------------------------ float values
RECURSIVE GCD(_, _)
GCD(a, b) == IF b = 0 THEN a ELSE GCD(b, a % b)

AbsInt(a) == IF a < 0 THEN -a ELSE a

Fin(n, d) ==
    LET g == GCD(AbsInt(n), d)
    IN  [k |-> "fin", n |-> n \div g, d |-> d \div g]

NaN    == [k |-> "nan", n |-> 0, d |-> 1]
PInf   == [k |-> "inf", n |-> 0, d |-> 1]
Big    == [k |-> "big", n |-> 1, d |-> 1]
None   == [k |-> "none", n |-> 0, d |-> 1]
Absent == [k |-> "absent", n |-> 0, d |-> 1]
Zero   == Fin(0, 1)

IsNaN(x) == x.k = "nan"
IsFin(x) == x.k = "fin"

\* a < b for a, b finite, +inf or the largest double
Less(a, b) ==
    CASE a.k = "fin" /\ b.k = "fin" -> a.n * b.d < b.n * a.d
      [] a.k = "fin"                -> TRUE
      [] a.k = "big"                -> b.k = "inf"
      [] OTHER                      -> FALSE

\* np.abs(x - m)
AbsDiff(x, m) ==
    CASE IsNaN(x) \/ IsNaN(m)       -> NaN
      [] x.k = "inf" /\ m.k = "inf" -> NaN
      [] x.k = "inf" \/ m.k = "inf" -> PInf
      [] OTHER                      -> Fin(AbsInt(x.n * m.d - m.n * x.d), x.d * m.d)

\* c * x for the positive finite constant c
Scale(c, x) ==
    CASE IsFin(x) -> Fin(c.n * x.n, c.d * x.d)
      [] OTHER    -> x

\* a / b for a, b >= 0 (IEEE division)
Div(a, b) ==
    CASE IsNaN(a) \/ IsNaN(b)       -> NaN
      [] a.k = "inf" /\ b.k = "inf" -> NaN
      [] a.k = "inf"                -> PInf
      [] b.k = "inf"                -> Zero
      [] b.n = 0 /\ a.n = 0         -> NaN
      [] b.n = 0                    -> PInf
      [] OTHER                      -> Fin(a.n * b.d, a.d * b.n)

\* (a + b) / 2, the mean of the two middle elements in np.median
Mean2(a, b) ==
    CASE a.k = "inf" \/ b.k = "inf" -> PInf
      [] OTHER                      -> Fin(a.n * b.d + b.n * a.d, 2 * a.d * b.d)

\* --------------------------------------------------------------- sequences
SelectSeqNotNaN(s) == SelectSeq(s, LAMBDA x : ~IsNaN(x))

\* the r-th smallest element of the NaN-free sequence s (1-based)
Kth(s, r) ==
    LET i == CHOOSE j \in 1..Len(s) :
                 /\ Cardinality({m \in 1..Len(s) : Less(s[m], s[j])}) <= r - 1
                 /\ Cardinality({m \in 1..Len(s) : ~Less(s[j], s[m])}) >= r
    IN  s[i]

\* np.median of a NaN-free, non-empty sequence
median(s) ==
    LET n == Len(s)
    IN  IF n % 2 = 1 THEN Kth(s, (n + 1) \div 2)
        ELSE Mean2(Kth(s, n \div 2), Kth(s, n \div 2 + 1))

\* faulty variant: np.median, which returns NaN as soon as one entry is NaN
nanmedian_propagate(s) ==
    IF \E i \in 1..Len(s) : IsNaN(s[i]) THEN NaN ELSE median(s)

\* np.nanmedian: the median of the non-NaN entries, NaN when there are none
nanmedian(s) ==
    LET t == SelectSeqNotNaN(s)
    IN  IF Len(t) = 0 THEN NaN ELSE median(t)

\* faulty variant: +inf replaced by 0 as well
nan_to_num_zero(x) ==
    CASE x.k = "nan" -> Zero
      [] x.k = "inf" -> Zero
      [] OTHER       -> x

\* np.nan_to_num with its default arguments: NaN -> 0.0, +inf -> largest double
nan_to_num(x) ==
    CASE x.k = "nan" -> Zero
      [] x.k = "inf" -> Big
      [] OTHER       -> x

\* the constant of the modified z-score
Coef == Fin(6745, 10000)

\* score > threshold (elementwise comparison of decision scores)
Greater(s, t) == Less(t, s)

\* ------------------------------------------------------------------ arrays
\* an attribute holding an array, or no attribute at all
Arr(v)    == [k |-> "arr", v |-> v]
NoArr     == [k |-> "absent", v |-> <<>>]

\* an input as check_array returns it: its shape and its values in row order
Input(shape, data) == [shape |-> shape, data |-> data]

\* errors
NoErr            == [type |-> "none", what |-> "", k |-> 0]
ValidationError  == [type |-> "ValueError", what |-> "check_array", k |-> 0]
DimError(k)      == [type |-> "ValueError", what |-> "dimensions", k |-> k]
IndexError       == [type |-> "IndexError", what |-> "shape[1]", k |-> 0]
AttributeError   == [type |-> "AttributeError", what |-> "median_", k |-> 0]
TypeError        == [type |-> "TypeError", what |-> "NoneType", k |-> 0]

\* check_array(X, ensure_2d=False, force_all_finite=False): one or two
\* dimensions, at least one sample; NaN and infinities pass
check_array(X) ==
    IF Len(X.shape) \in {1, 2} /\ X.shape[1] >= 1 THEN NoErr ELSE ValidationError

_check_dim(X) ==
    IF Len(X.shape) < 2 THEN IndexError
    ELSE IF X.shape[2] # 1 THEN DimError(X.shape[2])
    ELSE NoErr

\* ---------------------------------------------------------------- detector
\* BaseDetector.__init__(contamination): stores contamination, nothing else
BaseDetector__init__(contamination) ==
    [ threshold        |-> Absent,
      contamination    |-> contamination,
      threshold_       |-> Absent,
      _classes         |-> Absent,
      median_          |-> Absent,
      median_diff_     |-> Absent,
      decision_scores_ |-> NoArr,
      labels_          |-> NoArr,
      _mu              |-> Absent,
      _sigma           |-> Absent ]

\* MAD(threshold), contamination left at its default 0.1
__init__(threshold) ==
    [BaseDetector__init__(Fin(1, 10)) EXCEPT !.threshold = threshold]

\* diff = np.abs(obs - self.median_)
Diff(obs, med) == [i \in 1..Len(obs) |-> AbsDiff(obs[i], med)]

\* np.nan_to_num(np.ravel(0.6745 * diff / self.median_diff_))
ScoresOf(diff, mdiff) ==
    [i \in 1..Len(diff) |-> nan_to_num(Div(Scale(Coef, diff[i]), mdiff))]

Scores(obs, med, mdiff) == ScoresOf(Diff(obs, med), mdiff)

\* the array f as a sequence
AsSeq(f) == [i \in 1..Len(f) |-> f[i]]

Result(self, ret, err) == [self |-> self, ret |-> ret, err |-> err]

\* F(v) with v evaluated once: a local variable assigned once and read often
Let(v, F(_)) == CHOOSE y \in {F(x) : x \in {v}} : TRUE

\* faulty variant: the cached statistics are recomputed on every call
_mad_recompute(self, X) ==
    LET obs == X.data
    IN  IF self.median_ = Absent THEN Result(self, NoArr, AttributeError)
        ELSE
        LET m    == nanmedian(obs)
            diff == Diff(obs, m)
            md   == nanmedian(diff)
        IN  Result([self EXCEPT !.median_ = m, !.median_diff_ = md],
                   Arr(ScoresOf(diff, md)), NoErr)

_mad(self, X) ==
    LET obs == X.data
    IN  IF self.median_ = Absent THEN Result(self, NoArr, AttributeError)
        ELSE
        Let(IF self.median_ = None THEN nanmedian(obs) ELSE self.median_,
            LAMBDA m :
        LET s1 == [self EXCEPT !.median_ = m]
        IN  IF s1.median_diff_ = Absent THEN Result(s1, NoArr, AttributeError)
            ELSE
            Let(AsSeq(Diff(obs, m)), LAMBDA diff :
            Let(IF s1.median_diff_ = None THEN nanmedian(diff)
                ELSE s1.median_diff_,
                LAMBDA md :
            Result([s1 EXCEPT !.median_diff_ = md],
                   Arr(AsSeq(ScoresOf(diff, md))), NoErr))))

decision_function(self, X) ==
    IF check_array(X) # NoErr THEN Result(self, NoArr, check_array(X))
    ELSE IF _check_dim(X) # NoErr THEN Result(self, NoArr, _check_dim(X))
    ELSE _mad(self, X)

\* a + b for finite a and b
Add(a, b) ==
    LET g == GCD(a.d, b.d)
    IN  Fin(a.n * (b.d \div g) + b.n * (a.d \div g), (a.d \div g) * b.d)

RECURSIVE SumFin(_)
SumFin(s) == IF Len(s) = 0 THEN Zero ELSE Add(Head(s), SumFin(Tail(s)))

\* np.nanmean of decision scores (finite values or the largest double). A lone
\* largest double absorbs the finite terms; two of them overflow the sum.
nanmean(s) ==
    LET t    == SelectSeqNotNaN(s)
        fin  == SelectSeq(t, IsFin)
        nbig == Len(t) - Len(fin)
        sum  == SumFin(fin)
    IN  CASE Len(t) = 0 -> NaN
          [] nbig = 0   -> Fin(sum.n, sum.d * Len(t))
          [] nbig = 1   -> [k |-> "big", n |-> 1, d |-> Len(t)]
          [] OTHER      -> PInf

\* np.nanstd (population standard deviation): sqrt(mean((x - mean)^2))
nanstd(s) ==
    LET t    == SelectSeqNotNaN(s)
        fin  == SelectSeq(t, IsFin)
        nbig == Len(t) - Len(fin)
        Sq(e) == Fin(e.n * e.n, e.d * e.d)
        Var(avg) == SumFin([i \in 1..Len(fin) |-> Sq(AbsDiff(fin[i], avg))])
    IN  CASE Len(t) = 0 -> NaN
          [] nbig = 0   -> Let(Let(nanmean(s), Var), LAMBDA var :
                               [k |-> "sqrt", n |-> Fin(var.n, var.d * Len(t)).n,
                                              d |-> Fin(var.n, var.d * Len(t)).d])
          [] nbig = 1 /\ Len(t) = 1 -> [k |-> "sqrt", n |-> 0, d |-> 1]
          [] OTHER      -> PInf

\* faulty variant: >= in place of >
Labels_ge(ds, threshold) ==
    [i \in 1..Len(ds) |-> IF ~Less(ds[i], threshold) THEN 1 ELSE 0]

\* (self.decision_scores_ > self.threshold).astype('int').ravel()
Labels(ds, threshold) ==
    [i \in 1..Len(ds) |-> IF Greater(ds[i], threshold) THEN 1 ELSE 0]

_process_decision_scores(self) ==
    LET ds == self.decision_scores_.v
    IN  [self EXCEPT !.labels_ = Arr(Labels(ds, self.threshold)),
                     !._mu     = nanmean(ds),
                     !._sigma  = nanstd(ds)]

\* BaseDetector._set_n_classes(y) with y = None: two classes
_set_n_classes(self) == [self EXCEPT !._classes = Fin(2, 1)]

\* self.threshold_ = self.threshold
SetThreshold(self) == [self EXCEPT !.threshold_ = self.threshold]

\* faulty variant: median_ initialised once, not reset by later fits
ResetMedian_once(self) ==
    IF self.median_ = Absent THEN [self EXCEPT !.median_ = None] ELSE self

\* self.median_ = None  # reset median after each call
ResetMedian(self) == [self EXCEPT !.median_ = None]

\* faulty variant: median_diff_ initialised once, not reset by later fits
ResetMedianDiff_once(self) ==
    IF self.median_diff_ = Absent THEN [self EXCEPT !.median_diff_ = None] ELSE self

\* self.median_diff_ = None  # reset median_diff after each call
ResetMedianDiff(self) == [self EXCEPT !.median_diff_ = None]

\* faulty variant: the caches are reset before the input is checked
fit_reset_first(self, X) ==
    LET s0 == ResetMedianDiff(ResetMedian(self))
    IN  IF check_array(X) # NoErr THEN Result(s0, NoArr, check_array(X))
        ELSE IF _check_dim(X) # NoErr THEN Result(s0, NoArr, _check_dim(X))
        ELSE
        LET s1 == SetThreshold(_set_n_classes(s0))
            r  == decision_function(s1, X)
        IN  IF r.err # NoErr THEN r
            ELSE Result(_process_decision_scores(
                            [r.self EXCEPT !.decision_scores_ = r.ret]),
                        NoArr, NoErr)

\* faulty variant: the caches are reset once more after scoring
fit_reset_after(self, X) ==
    IF check_array(X) # NoErr THEN Result(self, NoArr, check_array(X))
    ELSE IF _check_dim(X) # NoErr THEN Result(self, NoArr, _check_dim(X))
    ELSE
    LET s1 == ResetMedianDiff(ResetMedian(SetThreshold(_set_n_classes(self))))
        r  == decision_function(s1, X)
    IN  IF r.err # NoErr THEN r
        ELSE Result(_process_decision_scores(
                        [ResetMedianDiff(ResetMedian(r.self))
                            EXCEPT !.decision_scores_ = r.ret]),
                    NoArr, NoErr)

fit(self, X) ==
    IF check_array(X) # NoErr THEN Result(self, NoArr, check_array(X))
    ELSE IF _check_dim(X) # NoErr THEN Result(self, NoArr, _check_dim(X))
    ELSE
    Let(decision_function(
            ResetMedianDiff(ResetMedian(SetThreshold(_set_n_classes(self)))), X),
        LAMBDA r :
    IF r.err # NoErr THEN r
    ELSE Result(_process_decision_scores(
                    [r.self EXCEPT !.decision_scores_ = r.ret]),
                NoArr, NoErr))

\* ------------------------------------------------------------------ inputs
RECURSIVE SeqsUpTo(_, _)
SeqsUpTo(S, n) ==
    IF n = 0 THEN {<<>>}
    ELSE LET T == SeqsUpTo(S, n - 1)
         IN  T \cup {Append(t, x) : t \in {u \in T : Len(u) = n - 1}, x \in S}

Vals == {NaN, Fin(0, 1), Fin(1, 1)}

\* a two-dimensional array with one column
Column(data) == Input(<<Len(data), 1>>, data)
\* a one-dimensional array
Flat(data) == Input(<<Len(data)>>, data)

\* every single column of at most n values of Vals
Columns(n) == {Column(d) : d \in SeqsUpTo(Vals, n) \ {<<>>}}

\* longer columns: spread values, a zero deviation next to an outlier, a NaN
\* among valid values, an outlier beyond the default threshold
LongColumns ==
    {Column(<<Fin(0, 1), Fin(1, 1), Fin(3, 1)>>),
     Column(<<Fin(0, 1), Fin(0, 1), Fin(1, 1)>>),
     Column(<<Fin(1, 1), NaN, Fin(0, 1), Fin(3, 1)>>),
     Column(<<Fin(0, 1), Fin(1, 1), Fin(7, 1)>>)}

\* columns holding +Infinity
InfColumns ==
    {Column(<<PInf>>), Column(<<Fin(0, 1), PInf>>),
     Column(<<Fin(0, 1), Fin(1, 1), PInf>>)}

FlatInputs == {Flat(<<Fin(0, 1), Fin(1, 1)>>), Flat(<<NaN, Fin(1, 1)>>)}

\* more than one feature: shapes (2, 2) and (1, 3)
WideInputs ==
    {Input(<<2, 2>>, <<Fin(0, 1), Fin(0, 1), Fin(1, 1), Fin(3, 1)>>),
     Input(<<1, 3>>, <<Fin(0, 1), Fin(1, 1), Fin(3, 1)>>)}

\* what check_array rejects: no sample, three dimensions
InvalidInputs == {Input(<<0, 1>>, <<>>), Input(<<1, 1, 1>>, <<Fin(0, 1)>>)}

OtherInputs == InfColumns \cup FlatInputs \cup WideInputs \cup InvalidInputs

FitInputs   == Columns(MaxLen) \cup LongColumns \cup OtherInputs
ScoreInputs == Columns(MaxScoreLen) \cup OtherInputs

\* 0.6745 (a score can equal it) and the default 3.5
Thresholds == {Fin(1349, 2000), Fin(7, 2)}

NoInput == Input(<<0>>, <<>>)

\* ------------------------------------------------------------------- state
Instances == {1, 2}
Threads   == {1, 2}

\* the columns fitted by the interleaved calls, and one input with two features
ConcInputs ==
    Columns(MaxConcLen)
        \cup {Column(<<Fin(0, 1), Fin(1, 1), Fin(3, 1)>>),
              Input(<<1, 2>>, <<Fin(0, 1), Fin(3, 1)>>)}

\* the local variables of one running fit call
NoLocals == [tmp |-> None, med |-> None, diff |-> <<>>, ret |-> <<>>, err |-> NoErr]

VARIABLES
    self,        \* the detector instance of the sequential calls
    lastOp,      \* the last call: "init", "fit" or "decision_function"
    lastX,       \* its argument
    ret,         \* the array it returned (fit returns the detector itself)
    err,         \* the exception it raised, or NoErr
    preMedian,   \* self.median_ when the last call started
    fitX,        \* the argument of the last successful fit
    fitSelf,     \* the detector as the last successful fit left it
    scoredOther, \* a column other than fitX was scored since the last fit
    obj,         \* the detector instances shared by the threads
    pc,          \* where each thread is in its fit call
    tgt,         \* the instance each thread calls fit on
    arg,         \* the argument of each thread's call
    loc,         \* each thread's local variables
    lastCaller,  \* per instance, the thread that called fit last (0: none)
    overlap      \* per instance, whether two calls on it ran at the same time

seqvars  == <<self, lastOp, lastX, ret, err, preMedian, fitX, fitSelf, scoredOther>>
concvars == <<obj, pc, tgt, arg, loc, lastCaller, overlap>>
vars     == <<seqvars, concvars>>

InitSeq(thresholds) ==
    /\ \E t \in thresholds : self = __init__(t)
    /\ lastOp = "init"
    /\ lastX = NoInput
    /\ ret = NoArr
    /\ err = NoErr
    /\ preMedian = Absent
    /\ fitX = NoInput
    /\ fitSelf = self
    /\ scoredOther = FALSE

InitConc ==
    /\ obj = [i \in Instances |-> __init__(Fin(7, 2))]
    /\ pc = [t \in Threads |-> "idle"]
    /\ tgt = [t \in Threads |-> 1]
    /\ arg = [t \in Threads |-> NoInput]
    /\ loc = [t \in Threads |-> NoLocals]
    /\ lastCaller = [i \in Instances |-> 0]
    /\ overlap = [i \in Instances |-> FALSE]

\* --------------------------------------------------- calls run one at a time
Init == InitSeq(Thresholds) /\ InitConc

Fit(X) ==
    \E r \in {fit(self, X)} :
        /\ self' = r.self
        /\ lastOp' = "fit"
        /\ lastX' = X
        /\ ret' = r.ret
        /\ err' = r.err
        /\ preMedian' = self.median_
        /\ fitX' = IF r.err = NoErr THEN X ELSE fitX
        /\ fitSelf' = IF r.err = NoErr THEN r.self ELSE fitSelf
        /\ scoredOther' = IF r.err = NoErr THEN FALSE ELSE scoredOther
        /\ UNCHANGED concvars

DecisionFunction(X) ==
    \E r \in {decision_function(self, X)} :
        /\ self' = r.self
        /\ lastOp' = "decision_function"
        /\ lastX' = X
        /\ ret' = r.ret
        /\ err' = r.err
        /\ preMedian' = self.median_
        /\ scoredOther' = (scoredOther \/ (r.err = NoErr /\ X # fitX))
        /\ UNCHANGED <<fitX, fitSelf>>
        /\ UNCHANGED concvars

Next ==
    \/ \E X \in FitInputs : Fit(X)
    \/ \E X \in ScoreInputs \cup {fitX} : DecisionFunction(X)

Spec == Init /\ [][Next]_vars

\* ------------------------------------------------- properties, calls in turn
HasFit == fitSelf.decision_scores_ # NoArr

\* X has shape (n, 1) with n >= 1
IsColumn(X) == Len(X.shape) = 2 /\ X.shape[1] >= 1 /\ X.shape[2] = 1
\* X has shape (n, k) with n >= 1 and k > 1
IsWide(X) == Len(X.shape) = 2 /\ X.shape[1] >= 1 /\ X.shape[2] > 1
\* X has shape (n,) with n >= 1
IsFlat(X) == Len(X.shape) = 1 /\ X.shape[1] >= 1

\* the scores the last call produced: ret of decision_function, and
\* decision_scores_ for fit
LastScores == IF lastOp = "fit" THEN self.decision_scores_.v ELSE ret.v

\* the entries of s at the positions where x is not NaN
RECURSIVE KeepAt(_, _)
KeepAt(s, x) ==
    IF Len(x) = 0 THEN <<>>
    ELSE IF IsNaN(Head(x)) THEN KeepAt(Tail(s), Tail(x))
    ELSE <<Head(s)>> \o KeepAt(Tail(s), Tail(x))

\* C1: after a successful fit, a decision_function call leaves median_,
\* median_diff_, decision_scores_, labels_, _mu, _sigma and the threshold as
\* the fit left them, and its scores are computed from the cached statistics.
C1_ScoreReusesCache ==
    (HasFit /\ lastOp = "decision_function") =>
        /\ self.median_ = fitSelf.median_
        /\ self.median_diff_ = fitSelf.median_diff_
        /\ self.decision_scores_ = fitSelf.decision_scores_
        /\ self.labels_ = fitSelf.labels_
        /\ self._mu = fitSelf._mu
        /\ self._sigma = fitSelf._sigma
        /\ self.threshold = fitSelf.threshold
        /\ self.threshold_ = fitSelf.threshold_
        /\ (IsColumn(lastX) =>
               /\ err = NoErr
               /\ ret = Arr(Scores(lastX.data, fitSelf.median_, fitSelf.median_diff_)))

\* a column with another median was scored on a fitted detector
C1_Witness ==
    /\ HasFit /\ lastOp = "decision_function" /\ err = NoErr
    /\ lastX # fitX
    /\ nanmedian(lastX.data) # self.median_
    /\ nanmedian(Diff(lastX.data, nanmedian(lastX.data))) # self.median_diff_

\* C2: a successful fit(X) leaves median_ = nanmedian(X) and median_diff_ =
\* nanmedian(|X - median_|), and the same detector as fit(X) on a new one with
\* the same threshold, whatever was called before.
C2_FitRecomputes ==
    (lastOp = "fit" /\ err = NoErr) =>
        /\ self.median_ = nanmedian(lastX.data)
        /\ self.median_diff_ = nanmedian(Diff(lastX.data, nanmedian(lastX.data)))
        /\ self = fit(__init__(self.threshold), lastX).self

\* the fit replaced statistics cached from another column
C2_Witness ==
    /\ lastOp = "fit" /\ err = NoErr
    /\ preMedian.k \in {"fin", "inf", "nan"}
    /\ preMedian # self.median_

\* C3: after a successful fit(X), decision_function(X) returns decision_scores_,
\* also after other columns were scored in between.
C3_ScoreIdempotent ==
    (HasFit /\ lastOp = "decision_function" /\ lastX = fitX) =>
        /\ err = NoErr
        /\ ret = self.decision_scores_

\* X scored again after another column was scored; some score is not 0
C3_Witness ==
    /\ HasFit /\ lastOp = "decision_function" /\ lastX = fitX
    /\ scoredOther /\ err = NoErr
    /\ \E i \in 1..Len(ret.v) : ret.v[i] # Zero

\* C4: decision_function on a detector that was never fitted returns the
\* scores of a single column without error and caches the column's median
\* and median absolute deviation.
C4_ScoreBeforeFit ==
    (lastOp = "decision_function" /\ preMedian = Absent /\ IsColumn(lastX)) =>
        /\ err = NoErr
        /\ self.median_ = nanmedian(lastX.data)
        /\ self.median_diff_ = nanmedian(Diff(lastX.data, self.median_))
        /\ ret = Arr(Scores(lastX.data, self.median_, self.median_diff_))

\* C5: fit accepts a flat sequence of n values and gives it the scores of the
\* (n, 1) array of the same values.
C5_FlatAccepted ==
    (lastOp = "fit" /\ IsFlat(lastX)) =>
        /\ err = NoErr
        /\ self.decision_scores_ =
              fit(__init__(self.threshold), Column(lastX.data)).self.decision_scores_

\* C6: a call on an input with k > 1 features fails with the dimensionality
\* error reporting k and leaves the detector as it was.
C6_WideInputFails ==
    [][IsWide(lastX') => (err' = DimError(lastX'.shape[2]) /\ self' = self)]_vars

\* a fitted detector after a rejected two-feature input
C6_Witness ==
    /\ HasFit /\ IsWide(lastX) /\ lastOp = "fit"
    /\ err = DimError(2)
    /\ self = fitSelf

\* C7: once fitted, labels_ is as long as decision_scores_ and labels_[i] is 1
\* exactly when decision_scores_[i] > threshold, else 0.
C7_LabelsFollowThreshold ==
    HasFit =>
        /\ self.labels_.k = "arr"
        /\ Len(self.labels_.v) = Len(self.decision_scores_.v)
        /\ \A i \in 1..Len(self.labels_.v) :
              /\ self.labels_.v[i] \in {0, 1}
              /\ self.labels_.v[i] = 1 <=> Less(self.threshold, self.decision_scores_.v[i])

\* a score equal to the threshold labelled 0 next to an outlier, after a
\* later decision_function call
C7_Witness ==
    /\ HasFit /\ lastOp = "decision_function"
    /\ \E i \in 1..Len(self.labels_.v) :
          self.decision_scores_.v[i] = self.threshold /\ self.labels_.v[i] = 0
    /\ \E i \in 1..Len(self.labels_.v) : self.labels_.v[i] = 1

\* a call on a single column that returned scores
Scored == err = NoErr /\ lastOp \in {"fit", "decision_function"}

\* the score before np.nan_to_num
Raw(x) == Div(Scale(Coef, AbsDiff(x, self.median_)), self.median_diff_)

\* C8 as stated: with a median absolute deviation of 0 every score is 0.
C8_ZeroMadAllZero ==
    (Scored /\ self.median_diff_ = Zero) =>
        \A i \in 1..Len(LastScores) : LastScores[i] = Zero

\* C8: a NaN raw score becomes 0 and a +Infinity raw score becomes the largest
\* finite double; with a median absolute deviation of 0 an observation equal
\* to the median (or NaN) scores 0 and any other one the largest double.
C8_NanToNum ==
    Scored =>
        \A i \in 1..Len(LastScores) :
            LET raw == Raw(lastX.data[i])
            IN  /\ IsNaN(raw) => LastScores[i] = Zero
                /\ raw = PInf => LastScores[i] = Big
                /\ IsFin(raw) => LastScores[i] = raw
                /\ self.median_diff_ = Zero =>
                      LastScores[i] =
                          IF lastX.data[i] = self.median_ \/ IsNaN(lastX.data[i])
                          THEN Zero ELSE Big

\* a zero deviation with an observation on the median and one off it
C8_Witness ==
    /\ Scored /\ self.median_diff_ = Zero
    /\ \E i \in 1..Len(LastScores) :
          lastX.data[i] = self.median_ /\ LastScores[i] = Zero
    /\ \E i \in 1..Len(LastScores) :
          IsFin(lastX.data[i]) /\ LastScores[i] = Big

HasNaN(X) == \E i \in 1..Len(X.data) : IsNaN(X.data[i])
HasValue(X) == \E i \in 1..Len(X.data) : ~IsNaN(X.data[i])

Running(t) == pc[t] \notin {"idle", "done"}

Goto(t, l) == pc' = [pc EXCEPT ![t] = l]

Raise(t, e) ==
    /\ loc' = [loc EXCEPT ![t].err = e]
    /\ Goto(t, "done")

Call(t) ==
    /\ pc[t] = "idle"
    /\ \E X \in ConcInputs, i \in (IF t = 1 THEN {1} ELSE Instances) :
          /\ arg' = [arg EXCEPT ![t] = X]
          /\ tgt' = [tgt EXCEPT ![t] = i]
          /\ lastCaller' = [lastCaller EXCEPT ![i] = t]
          /\ overlap' = [overlap EXCEPT ![i] =
                            @ \/ \E u \in Threads \ {t} : Running(u) /\ tgt[u] = i]
    /\ Goto(t, "l79")
    /\ UNCHANGED <<obj, loc, seqvars>>

\* lines 79-82: validation, then the class count and threshold_
L79(t) ==
    /\ pc[t] = "l79"
    /\ IF check_array(arg[t]) # NoErr
          THEN Raise(t, check_array(arg[t])) /\ UNCHANGED obj
       ELSE IF _check_dim(arg[t]) # NoErr
          THEN Raise(t, _check_dim(arg[t])) /\ UNCHANGED obj
       ELSE /\ obj' = [obj EXCEPT ![tgt[t]] = SetThreshold(_set_n_classes(@))]
            /\ Goto(t, "l83")
            /\ UNCHANGED loc
    /\ UNCHANGED <<tgt, arg, lastCaller, overlap, seqvars>>

L83(t) ==
    /\ pc[t] = "l83"
    /\ obj' = [obj EXCEPT ![tgt[t]] = ResetMedian(@)]
    /\ Goto(t, "l84")
    /\ UNCHANGED <<tgt, arg, loc, lastCaller, overlap, seqvars>>

L84(t) ==
    /\ pc[t] = "l84"
    /\ obj' = [obj EXCEPT ![tgt[t]] = ResetMedianDiff(@)]
    /\ Goto(t, "l124")
    /\ UNCHANGED <<tgt, arg, loc, lastCaller, overlap, seqvars>>

\* line 124, the test "self.median_ is None" and the branch taken
L124(t) ==
    /\ pc[t] = "l124"
    /\ IF obj[tgt[t]].median_ = Absent THEN Raise(t, AttributeError)
       ELSE IF obj[tgt[t]].median_ = None
          THEN /\ loc' = [loc EXCEPT ![t].tmp = nanmedian(arg[t].data)]
               /\ Goto(t, "l124s")
       ELSE Goto(t, "l124e") /\ UNCHANGED loc
    /\ UNCHANGED <<obj, tgt, arg, lastCaller, overlap, seqvars>>

\* line 125, the else branch reads self.median_ again
L124e(t) ==
    /\ pc[t] = "l124e"
    /\ loc' = [loc EXCEPT ![t].tmp = obj[tgt[t]].median_]
    /\ Goto(t, "l124s")
    /\ UNCHANGED <<obj, tgt, arg, lastCaller, overlap, seqvars>>

\* line 124, the store into self.median_
L124s(t) ==
    /\ pc[t] = "l124s"
    /\ obj' = [obj EXCEPT ![tgt[t]].median_ = loc[t].tmp]
    /\ Goto(t, "l126")
    /\ UNCHANGED <<tgt, arg, loc, lastCaller, overlap, seqvars>>

\* line 126: obs - None raises TypeError
L126(t) ==
    /\ pc[t] = "l126"
    /\ IF obj[tgt[t]].median_ = None THEN Raise(t, TypeError)
       ELSE /\ loc' = [loc EXCEPT ![t].diff = Diff(arg[t].data, obj[tgt[t]].median_),
                                  ![t].med  = obj[tgt[t]].median_]
            /\ Goto(t, "l127")
    /\ UNCHANGED <<obj, tgt, arg, lastCaller, overlap, seqvars>>

L127(t) ==
    /\ pc[t] = "l127"
    /\ IF obj[tgt[t]].median_diff_ = Absent THEN Raise(t, AttributeError)
       ELSE IF obj[tgt[t]].median_diff_ = None
          THEN /\ loc' = [loc EXCEPT ![t].tmp = nanmedian(loc[t].diff)]
               /\ Goto(t, "l127s")
       ELSE Goto(t, "l127e") /\ UNCHANGED loc
    /\ UNCHANGED <<obj, tgt, arg, lastCaller, overlap, seqvars>>

L127e(t) ==
    /\ pc[t] = "l127e"
    /\ loc' = [loc EXCEPT ![t].tmp = obj[tgt[t]].median_diff_]
    /\ Goto(t, "l127s")
    /\ UNCHANGED <<obj, tgt, arg, lastCaller, overlap, seqvars>>

L127s(t) ==
    /\ pc[t] = "l127s"
    /\ obj' = [obj EXCEPT ![tgt[t]].median_diff_ = loc[t].tmp]
    /\ Goto(t, "l129")
    /\ UNCHANGED <<tgt, arg, loc, lastCaller, overlap, seqvars>>

\* line 129: diff / None raises TypeError
L129(t) ==
    /\ pc[t] = "l129"
    /\ IF obj[tgt[t]].median_diff_ = None THEN Raise(t, TypeError)
       ELSE /\ loc' = [loc EXCEPT ![t].ret =
                          ScoresOf(loc[t].diff, obj[tgt[t]].median_diff_)]
            /\ Goto(t, "l85s")
    /\ UNCHANGED <<obj, tgt, arg, lastCaller, overlap, seqvars>>

\* line 85, the store into self.decision_scores_
L85s(t) ==
    /\ pc[t] = "l85s"
    /\ obj' = [obj EXCEPT ![tgt[t]].decision_scores_ = Arr(loc[t].ret)]
    /\ Goto(t, "l143")
    /\ UNCHANGED <<tgt, arg, loc, lastCaller, overlap, seqvars>>

L143(t) ==
    /\ pc[t] = "l143"
    /\ obj' = [obj EXCEPT ![tgt[t]].labels_ =
                  Arr(Labels(obj[tgt[t]].decision_scores_.v, obj[tgt[t]].threshold))]
    /\ Goto(t, "l147")
    /\ UNCHANGED <<tgt, arg, loc, lastCaller, overlap, seqvars>>

L147(t) ==
    /\ pc[t] = "l147"
    /\ obj' = [obj EXCEPT ![tgt[t]]._mu = nanmean(obj[tgt[t]].decision_scores_.v)]
    /\ Goto(t, "l148")
    /\ UNCHANGED <<tgt, arg, loc, lastCaller, overlap, seqvars>>

L148(t) ==
    /\ pc[t] = "l148"
    /\ obj' = [obj EXCEPT ![tgt[t]]._sigma = nanstd(obj[tgt[t]].decision_scores_.v)]
    /\ Goto(t, "done")
    /\ UNCHANGED <<tgt, arg, loc, lastCaller, overlap, seqvars>>

NextConc ==
    \E t \in Threads :
        \/ Call(t)  \/ L79(t)   \/ L83(t)   \/ L84(t)
        \/ L124(t)  \/ L124e(t) \/ L124s(t) \/ L126(t)
        \/ L127(t)  \/ L127e(t) \/ L127s(t) \/ L129(t)
        \/ L85s(t)  \/ L143(t)  \/ L147(t)  \/ L148(t)

InitThreads == InitSeq({Fin(7, 2)}) /\ InitConc

SpecConc == InitThreads /\ [][NextConc]_vars

\* ------------------------------------------- properties, interleaved fit calls
\* the detector a fit of X alone produces
FitAlone(X) == fit(__init__(Fin(7, 2)), X).self

\* the last fit on i returned without error and no other call on i ran during
\* any call on i
Serial(i) ==
    /\ lastCaller[i] # 0
    /\ pc[lastCaller[i]] = "done"
    /\ loc[lastCaller[i]].err = NoErr
    /\ ~overlap[i]

C10_SerialFinal ==
    \A i \in Instances : Serial(i) => obj[i] = FitAlone(arg[lastCaller[i]])

C10_OwnInstanceOnly ==
    \A i \in Instances :
        obj'[i] # obj[i] => \E t \in Threads : tgt[t] = i /\ pc'[t] # pc[t]

\* C10: fit calls that do not overlap leave the instance as the last fit alone
\* does, also when the other call runs on another instance at the same time;
\* a step of a fit changes no instance but the one it was called on. (The race
\* of two overlapping calls on one instance is the state C10_Witness.)
C10_FitRace == []C10_SerialFinal /\ [][C10_OwnInstanceOnly]_vars

\* both calls on one instance returned, and the stored decision scores are
\* those of a call that read the median cached from the other call's column
C10_Witness ==
    \E t \in Threads, u \in Threads :
        /\ t # u /\ tgt[t] = tgt[u]
        /\ pc[t] = "done" /\ pc[u] = "done"
        /\ loc[t].err = NoErr /\ loc[u].err = NoErr
        /\ obj[tgt[t]].decision_scores_ = Arr(loc[t].ret)
        /\ loc[t].med = nanmedian(arg[u].data)
        /\ loc[t].med # nanmedian(arg[t].data)
        /\ Arr(loc[t].ret) # FitAlone(arg[t]).decision_scores_
====
